---- MODULE Spec2Model ----
(***************************************************************************)
(* A model of the cddpm repository: the EMA weight tracker of              *)
(* utils/training_utils.py (EMAModel: get_decay, step, train), the         *)
(* training entry point of train.py (training(cfg)), the samplers (the     *)
(* sampling section of cddpm.py and generate_image), the UNet of cddpm.py  *)
(* on integer shapes, the noise schedule and the training loop of          *)
(* cddpm.py.  Each has its own variable and its own specification.         *)
(*                                                                         *)
(* Numbers.  Python floats are modelled in fixed point: a value v stands   *)
(* for v / Scale, so max_value = 0.9999 is 9999 and 1.0 is Scale.  Every   *)
(* floating-point operation that cannot be exact (the power in get_decay,  *)
(* the two in-place operations mul_ and add_ of step) rounds its result    *)
(* down to a multiple of 1 / Scale, as the float operation rounds to the   *)
(* nearest float.  Python's None, True, False and strings are modelled as  *)
(* the strings "None", "True", "False" and themselves.                     *)
(***************************************************************************)
EXTENDS Integers, Sequences, FiniteSets, TLC

VARIABLES
    ema,        \* the EMAModel object: its fields and its averaged_model
    call,       \* the last call made on the tracker: arguments, locals, outcome
    stepCalls,  \* history: how many step() calls were made on the tracker
    run,        \* a run of training(cfg): cfg, its position, its locals, the
                \* trainer's state and the calls made on the trainer
    samp,       \* a run of the sampling section of cddpm.py (lines 716-732)
    gen,        \* a call of generate_image (training_utils.py)
    fwd,        \* a UNet and one call of its forward
    sched,      \* a noise schedule being built: beta, alpha, alpha_bar
    loop        \* a run of the training loop of cddpm.py (lines 580-623)

emaVars == <<ema, call, stepCalls>>
scriptVars == <<samp, gen, fwd, sched, loop>>
vars == <<ema, call, stepCalls, run, samp, gen, fwd, sched, loop>>

-----------------------------------------------------------------------------
(* Bounds of the model *)

\* get_decay is applied to the optimization steps 0 .. MaxDecayStep ...
MaxDecayStep == 40
\* ... and to the steps within ClampWindow of the step at which the default
\* warm-up curve 1 - (1 + step) ^ (-2/3) crosses max_value = 0.9999
ClampWindow == 4
ClampStep == 1000000

-----------------------------------------------------------------------------
(* Arithmetic *)

Max(a, b) == IF a >= b THEN a ELSE b
Min(a, b) == IF a <= b THEN a ELSE b

\* 1.0 in fixed point: four decimal digits, those of max_value = 0.9999
Scale == 10000

\* Naturals beyond the machine integers of the checker, for the exact
\* comparisons the power needs: little-endian sequences of limbs in
\* 0 .. Limb - 1, without leading zero limbs (<<>> is 0).
Limb == 1000

RECURSIVE BigMulCarry(_, _, _)
BigMulCarry(a, f, carry) ==
    IF a = <<>>
    THEN IF carry = 0 THEN <<>>
         ELSE <<carry % Limb>> \o BigMulCarry(<<>>, f, carry \div Limb)
    ELSE LET p == Head(a) * f + carry
         IN  <<p % Limb>> \o BigMulCarry(Tail(a), f, p \div Limb)

\* a * f, for a big natural a and a machine integer f in 1 .. 2 * 10^6
BigMul(a, f) == BigMulCarry(a, f, 0)

\* a * f^n
RECURSIVE BigMulPow(_, _, _)
BigMulPow(a, f, n) == IF n = 0 THEN a ELSE BigMulPow(BigMul(a, f), f, n - 1)

RECURSIVE BigLeqFrom(_, _, _)
BigLeqFrom(a, b, i) ==
    IF i = 0 THEN TRUE
    ELSE IF a[i] # b[i] THEN a[i] < b[i]
    ELSE BigLeqFrom(a, b, i - 1)

\* a <= b
BigLeq(a, b) ==
    IF Len(a) # Len(b) THEN Len(a) < Len(b) ELSE BigLeqFrom(a, b, Len(a))

\* k / Scale <= (num / den) ^ (-pn / pd), decided exactly:
\* k^pd * num^pn <= Scale^pd * den^pn
PowAtLeast(k, num, den, pn, pd) ==
    BigLeq(BigMulPow(BigMulPow(<<1>>, k, pd), num, pn),
           BigMulPow(BigMulPow(<<1>>, Scale, pd), den, pn))

\* the largest k in lo .. hi with PowAtLeast(k, ...), which holds at lo and is
\* antitone in k
RECURSIVE PowSearch(_, _, _, _, _, _)
PowSearch(lo, hi, num, den, pn, pd) ==
    IF lo = hi THEN lo
    ELSE LET mid == (lo + hi + 1) \div 2
         IN  IF PowAtLeast(mid, num, den, pn, pd)
             THEN PowSearch(mid, hi, num, den, pn, pd)
             ELSE PowSearch(lo, mid - 1, num, den, pn, pd)

\* (num / den) ** -(pn / pd) for num >= den >= 1, rounded down to fixed point
PowNeg(num, den, pn, pd) == PowSearch(0, Scale, num, den, pn, pd)

-----------------------------------------------------------------------------
(* torch.nn.Module, as far as EMAModel uses it.  A module is a record       *)
(* [params, buffers, training]: params maps a parameter name to             *)
(* [data, requires_grad], buffers maps a buffer name to its value.          *)

EmptyDict == [k \in {} |-> 0]

\* copy.deepcopy(model).eval() followed by requires_grad_(False)
FrozenEvalCopy(model) ==
    [params   |-> [k \in DOMAIN model.params |->
                      [data |-> model.params[k].data, requires_grad |-> FALSE]],
     buffers  |-> model.buffers,
     training |-> FALSE]

\* Module.state_dict(): parameters and buffers by name.  The tensors share
\* storage with the module, so step's in-place operations on them act on
\* the module itself.
state_dict(m) ==
    [k \in DOMAIN m.params \cup DOMAIN m.buffers |->
        IF k \in DOMAIN m.params THEN m.params[k].data ELSE m.buffers[k]]

\* Module.load_state_dict(sd, strict=False): every entry of the module that
\* sd names is overwritten; names of sd the module lacks are ignored, and so
\* are names of the module that sd lacks.  The mode is left alone.
load_state_dict(m, sd) ==
    [m EXCEPT
        !.params  = [k \in DOMAIN m.params |->
                        IF k \in DOMAIN sd
                        THEN [m.params[k] EXCEPT !.data = sd[k]]
                        ELSE m.params[k]],
        !.buffers = [k \in DOMAIN m.buffers |->
                        IF k \in DOMAIN sd THEN sd[k] ELSE m.buffers[k]]]

\* Tensor.mul_(decay), in place
mul_(x, d) == (x * d) \div Scale

\* Tensor.add_(other, alpha=alpha), in place
add_(x, other, alpha) == x + (other * alpha) \div Scale

-----------------------------------------------------------------------------
(* EMAModel *)

\* EMAModel.__init__(model, update_after_step, inv_gamma, power, min_value,
\* max_value); power is the fraction power_num / power_den.  self.train is
\* bound to disabled_train; self.training is Module's own flag.
EMAModel(model, c) ==
    [averaged_model    |-> FrozenEvalCopy(model),
     update_after_step |-> c.update_after_step,
     inv_gamma         |-> c.inv_gamma,
     power_num         |-> c.power_num,
     power_den         |-> c.power_den,
     min_value         |-> c.min_value,
     max_value         |-> c.max_value,
     decay             |-> 0,
     optimization_step |-> 0,
     training          |-> TRUE]

\* get_decay without the clamp to max_value
get_decay_unclamped(self, optimization_step) ==
    LET step  == Max(0, optimization_step - self.update_after_step - 1)
        value == Scale - PowNeg(self.inv_gamma + step, self.inv_gamma,
                                self.power_num, self.power_den)
    IN  IF step <= 0 THEN 0 ELSE Max(self.min_value, value)

\* get_decay with the warm-up one step short: step counted from
\* update_after_step instead of update_after_step + 1
get_decay_short_warmup(self, optimization_step) ==
    LET step  == Max(0, optimization_step - self.update_after_step)
        value == Scale - PowNeg(self.inv_gamma + step, self.inv_gamma,
                                self.power_num, self.power_den)
    IN  IF step <= 0 THEN 0
        ELSE Max(self.min_value, Min(value, self.max_value))

\* EMAModel.get_decay(optimization_step)
get_decay(self, optimization_step) ==
    LET step  == Max(0, optimization_step - self.update_after_step - 1)
        value == Scale - PowNeg(self.inv_gamma + step, self.inv_gamma,
                                self.power_num, self.power_den)
    IN  IF step <= 0 THEN 0
        ELSE Max(self.min_value, Min(value, self.max_value))

\* the lookup without its except clause: the KeyError leaves step
ema_params_lookup_uncaught(ema_params, key, param) ==
    IF key \in DOMAIN ema_params
    THEN [ema_params |-> ema_params, raised |-> "None"]
    ELSE [ema_params |-> ema_params, raised |-> "KeyError"]

\* try: ema_param = ema_params[key]
\* except KeyError: a clone of the live parameter is entered in ema_params
\* (param.float().clone() for a 1-D parameter, copy.deepcopy(param) otherwise).
\* [ema_params, raised]
ema_params_lookup(ema_params, key, param) ==
    IF key \in DOMAIN ema_params
    THEN [ema_params |-> ema_params, raised |-> "None"]
    ELSE [ema_params |-> (key :> param.data) @@ ema_params, raised |-> "None"]

\* the round with decay and 1 - decay exchanged
step_param_swapped(L, key, param, decay) ==
    LET got == ema_params_lookup(L.ema_params, key, param)
        ema_param == IF ~param.requires_grad
                     THEN param.data
                     ELSE add_(mul_(got.ema_params[key], Scale - decay),
                               param.data, decay)
    IN  IF got.raised # "None"
        THEN [L EXCEPT !.raised = got.raised]
        ELSE [ema_params     |-> [got.ema_params EXCEPT ![key] = ema_param],
              ema_state_dict |-> (key :> ema_param) @@ L.ema_state_dict,
              raised         |-> "None"]

\* the round without the requires_grad test: every parameter is blended
step_param_all_blended(L, key, param, decay) ==
    LET got == ema_params_lookup(L.ema_params, key, param)
        ema_param == add_(mul_(got.ema_params[key], decay),
                          param.data, Scale - decay)
    IN  IF got.raised # "None"
        THEN [L EXCEPT !.raised = got.raised]
        ELSE [ema_params     |-> [got.ema_params EXCEPT ![key] = ema_param],
              ema_state_dict |-> (key :> ema_param) @@ L.ema_state_dict,
              raised         |-> "None"]

\* One round of the loop over new_model.named_parameters().  L holds the
\* locals: ema_params (the tensors of averaged_model.state_dict(), which
\* share its storage), ema_state_dict and the exception raised, if any.
step_param(L, key, param, decay) ==
    LET got == ema_params_lookup(L.ema_params, key, param)
        \* ema_param.to(param.data.device): the same tensor, on one device
        ema_param == IF ~param.requires_grad
                     THEN param.data
                     ELSE add_(mul_(got.ema_params[key], decay),
                               param.data, Scale - decay)
    IN  IF got.raised # "None"
        THEN [L EXCEPT !.raised = got.raised]
        ELSE [ema_params     |-> [got.ema_params EXCEPT ![key] = ema_param],
              ema_state_dict |-> (key :> ema_param) @@ L.ema_state_dict,
              raised         |-> "None"]

\* the loop over named_parameters(), in the order of the sequence keys
RECURSIVE step_params(_, _, _, _)
step_params(L, keys, new_model, decay) ==
    IF keys = <<>> \/ L.raised # "None" THEN L
    ELSE step_params(step_param(L, Head(keys), new_model.params[Head(keys)], decay),
                     Tail(keys), new_model, decay)

\* a set of names as a sequence, in the order named_parameters() yields them
RECURSIVE KeySeq(_)
KeySeq(S) ==
    IF S = {} THEN <<>>
    ELSE LET k == CHOOSE x \in S : TRUE IN <<k>> \o KeySeq(S \ {k})

\* the buffers averaged with the shadow's like parameters instead of copied
step_buffers_blended(ema_state_dict, ema_params, new_model, decay) ==
    [k \in DOMAIN new_model.buffers |->
        IF k \in DOMAIN ema_params
        THEN add_(mul_(ema_params[k], decay), new_model.buffers[k], Scale - decay)
        ELSE new_model.buffers[k]] @@ ema_state_dict

\* for key, param in new_model.named_buffers(): ema_state_dict[key] = param
step_buffers(ema_state_dict, ema_params, new_model, decay) ==
    new_model.buffers @@ ema_state_dict

\* The two loops of step and its load_state_dict, with the decay of this
\* call: [averaged_model, ema_state_dict, raised].
step_update(self, new_model, decay) ==
    LET L0     == [ema_params     |-> state_dict(self.averaged_model),
                   ema_state_dict |-> EmptyDict,
                   raised         |-> "None"]
        L1     == step_params(L0, KeySeq(DOMAIN new_model.params), new_model, decay)
        sd     == step_buffers(L1.ema_state_dict, L1.ema_params, new_model, decay)
        \* the in-place operations have already written the shadow's tensors
        shadow == load_state_dict(self.averaged_model, L1.ema_params)
    IN  IF L1.raised # "None"
        THEN [averaged_model |-> shadow,
              ema_state_dict |-> L1.ema_state_dict,
              raised         |-> L1.raised]
        ELSE [averaged_model |-> load_state_dict(shadow, sd),
              ema_state_dict |-> sd,
              raised         |-> "None"]

\* step with the counter incremented before the decay is computed
step_incremented_first(self, new_model) ==
    LET decay == get_decay(self, self.optimization_step + 1)
        r     == step_update(self, new_model, decay)
    IN  [self |-> [self EXCEPT
                      !.decay = decay,
                      !.averaged_model = r.averaged_model,
                      !.optimization_step =
                          IF r.raised = "None" THEN self.optimization_step + 1
                          ELSE self.optimization_step],
         ema_state_dict |-> r.ema_state_dict,
         raised         |-> r.raised]

\* EMAModel.step(new_model): [self, ema_state_dict, raised], the tracker
\* after the call, the local ema_state_dict and the exception raised
step(self, new_model) ==
    LET decay == get_decay(self, self.optimization_step)
        r     == step_update(self, new_model, decay)
    IN  [self |-> [self EXCEPT
                      !.decay = decay,
                      !.averaged_model = r.averaged_model,
                      !.optimization_step =
                          IF r.raised = "None" THEN self.optimization_step + 1
                          ELSE self.optimization_step],
         ema_state_dict |-> r.ema_state_dict,
         raised         |-> r.raised]

\* Module.train(mode), which EMAModel.train would be without the binding:
\* the mode of the module and of its children is set
module_train(mode, self) ==
    [self |-> [self EXCEPT !.training = (mode = "True"),
                           !.averaged_model.training = (mode = "True")],
     ret  |-> "self"]

\* disabled_train(mode, self): what EMAModel.train is bound to.
\* [self, ret]: the tracker after the call and the value returned
disabled_train(mode, self) == [self |-> self, ret |-> "self"]

-----------------------------------------------------------------------------
(* Inputs *)

\* how many step() calls a run of the tracker makes
MaxSteps == 4

\* parameter and buffer values, in fixed point
ParamValues == {2500, 20001}

\* The live model: a trainable parameter "weight", a parameter "frozen" that
\* does not require gradients, a buffer "running_mean" and, when extra is
\* not "absent", a parameter "extra" the tracked model did not have, which
\* requires gradients when extra = "grad".
Model(w, f, b, extra) ==
    [params   |-> IF extra = "absent"
                  THEN [k \in {"weight", "frozen"} |->
                           [data |-> IF k = "weight" THEN w ELSE f,
                            requires_grad |-> k = "weight"]]
                  ELSE [k \in {"weight", "frozen", "extra"} |->
                           [data |-> IF k = "weight" THEN w
                                     ELSE IF k = "frozen" THEN f ELSE 12345,
                            requires_grad |-> k = "weight"
                                              \/ (k = "extra" /\ extra = "grad")]],
     buffers  |-> [k \in {"running_mean"} |-> b],
     training |-> TRUE]

Models == {Model(w, f, b, extra) : w \in ParamValues, f \in ParamValues,
                                   b \in ParamValues,
                                   extra \in {"absent", "grad", "nograd"}}

TrackedModels == {Model(w, f, b, "absent") : w \in ParamValues,
                                             f \in ParamValues, b \in ParamValues}

\* the defaults of EMAModel.__init__
DefaultConfig ==
    [update_after_step |-> 0, inv_gamma |-> 1, power_num |-> 2, power_den |-> 3,
     min_value |-> 0, max_value |-> 9999]

\* the defaults, a simple average (gamma = 1, power = 1) and a late, clamped
\* warm-up (power 3/4, decay kept within [0.1, 0.8])
EMAConfigs ==
    {DefaultConfig,
     [DefaultConfig EXCEPT !.power_num = 1, !.power_den = 1],
     [update_after_step |-> 1, inv_gamma |-> 2, power_num |-> 3, power_den |-> 4,
      min_value |-> 1000, max_value |-> 8000]}

HasConfig(self, c) ==
    /\ self.update_after_step = c.update_after_step
    /\ self.inv_gamma = c.inv_gamma
    /\ self.power_num = c.power_num
    /\ self.power_den = c.power_den
    /\ self.min_value = c.min_value
    /\ self.max_value = c.max_value

DecaySteps ==
    (0 .. MaxDecayStep) \cup ((ClampStep - ClampWindow) .. (ClampStep + ClampWindow))

NoModel == [params |-> EmptyDict, buffers |-> EmptyDict, training |-> FALSE]

\* the record of a call: its name, its arguments, the locals it ended with,
\* the value it returned and the exception it raised
NoCall ==
    [op |-> "__init__", mode |-> "None", optimization_step |-> 0,
     new_model |-> NoModel, ema_state_dict |-> EmptyDict,
     value |-> 0, ret |-> "None", raised |-> "None"]

\* no run of training(cfg)
NoRun ==
    [cfg |-> EmptyDict, pc |-> "none", ckpt_path |-> "None",
     best_model_path |-> "", calls |-> <<>>, raised |-> "None"]

\* nothing of cddpm.py or generate_image is running
NoScript == [pc |-> "none"]

ScriptsIdle ==
    /\ samp = NoScript
    /\ gen = NoScript
    /\ fwd = NoScript
    /\ sched = NoScript
    /\ loop = NoScript


-----------------------------------------------------------------------------
(* The tracker: construction, then step() and train() calls in any order *)

Init ==
    /\ \E m \in TrackedModels, c \in EMAConfigs : ema = EMAModel(m, c)
    /\ call = NoCall
    /\ stepCalls = 0
    /\ run = NoRun
    /\ ScriptsIdle

Step ==
    /\ stepCalls < MaxSteps
    /\ \E new_model \in Models :
          LET r == step(ema, new_model)
          IN  /\ ema' = r.self
              /\ call' = [NoCall EXCEPT !.op = "step", !.new_model = new_model,
                                        !.ema_state_dict = r.ema_state_dict,
                                        !.raised = r.raised]
    /\ stepCalls' = stepCalls + 1
    /\ UNCHANGED <<run, scriptVars>>

Train ==
    /\ \E mode \in {"True", "False"} :
          LET r == disabled_train(mode, ema)
          IN  /\ ema' = r.self
              /\ call' = [NoCall EXCEPT !.op = "train", !.mode = mode,
                                        !.ret = r.ret]
    /\ UNCHANGED <<stepCalls, run, scriptVars>>

Next == Step \/ Train

Spec == Init /\ [][Next]_vars

-----------------------------------------------------------------------------
(* get_decay as a function: a tracker of any configuration, asked for the  *)
(* decay of any step                                                       *)

DecayInit ==
    /\ \E m \in {Model(2500, 2500, 2500, "absent")}, c \in EMAConfigs :
          ema = EMAModel(m, c)
    /\ call = NoCall
    /\ stepCalls = 0
    /\ run = NoRun
    /\ ScriptsIdle

GetDecay ==
    /\ \E s \in DecaySteps :
          call' = [NoCall EXCEPT !.op = "get_decay", !.optimization_step = s,
                                 !.value = get_decay(ema, s)]
    /\ UNCHANGED <<ema, stepCalls, run, scriptVars>>

DecayNext == GetDecay

SpecDecay == DecayInit /\ [][DecayNext]_vars

-----------------------------------------------------------------------------
(* train.py: training(cfg).  cfg is the dictionary json.load returns, a     *)
(* function from the keys present to their values.                         *)

\* Python truthiness of None, False, "" and the rest
Truthy(v) == v \notin {"None", "False", ""}

\* dict.get(key)
Get(d, key) == IF key \in DOMAIN d THEN d[key] ELSE "None"

\* an optional entry of a dictionary: absent when v = "absent"
Entry(key, v) == IF v = "absent" THEN EmptyDict ELSE (key :> v)

\* cfg["trainer"], when present: a dictionary with or without "ckpt_path"
TrainerDicts ==
    {EmptyDict, "ckpt_path" :> "None", "ckpt_path" :> "pretrained.ckpt"}

\* The configurations: "training" and "ckpt_path" are read with cfg[...]
\* before the part modelled, so they are present; "test", "train" and
\* "trainer" are read with cfg.get(...) and may be absent.
Cfgs ==
    {("training" :> training) @@ ("ckpt_path" :> ckpt_path)
        @@ Entry("test", test) @@ Entry("train", train) @@ trainer :
        training  \in {"True", "False"},
        ckpt_path \in {"None", "", "ckpts"},
        test      \in {"absent", "True", "False"},
        train     \in {"absent", "True", "False"},
        trainer   \in {EmptyDict} \cup {"trainer" :> d : d \in TrainerDicts}}

\* what trainer.checkpoint_callback.best_model_path may be after fit: the
\* callback saved a checkpoint, or none
BestModelPaths == {"", "ckpts/best.ckpt"}

\* the run stands at pc and has raised nothing
At(pc) == run.pc = pc /\ run.raised = "None"

TrainingInit ==
    /\ \E c \in Cfgs : run = [NoRun EXCEPT !.cfg = c, !.pc = "training"]
    /\ ScriptsIdle
    /\ \E m \in {Model(2500, 2500, 2500, "absent")} :
          ema = EMAModel(m, DefaultConfig)
    /\ call = NoCall
    /\ stepCalls = 0

\* the test without regard to cfg["training"]: fit always runs
training_if_training_ignored ==
    /\ At("training")
    /\ run' = [run EXCEPT !.pc = "fit"]
    /\ UNCHANGED <<emaVars, scriptVars>>

\* line 155: if cfg["training"]
training_if_training ==
    /\ At("training")
    /\ run' = [run EXCEPT !.pc = IF Truthy(run.cfg["training"])
                                 THEN "fit" ELSE "test"]
    /\ UNCHANGED <<emaVars, scriptVars>>

\* line 160: trainer.fit(model=model, datamodule=datamodule)
training_fit ==
    /\ At("fit")
    /\ \E best \in BestModelPaths :
          run' = [run EXCEPT !.pc = "save_checkpoint",
                             !.best_model_path = best,
                             !.calls = Append(@, <<"fit", "None">>)]
    /\ UNCHANGED <<emaVars, scriptVars>>

\* line 161: trainer.save_checkpoint(f"{cfg['ckpt_path']}/final.ckpt")
training_save_checkpoint ==
    /\ At("save_checkpoint")
    /\ run' = [run EXCEPT !.pc = "test",
                          !.calls = Append(@, <<"save_checkpoint",
                                       run.cfg["ckpt_path"] \o "/final.ckpt">>)]
    /\ UNCHANGED <<emaVars, scriptVars>>

\* line 165: if cfg.get("test")
training_if_test ==
    /\ At("test")
    /\ run' = [run EXCEPT !.pc = IF Truthy(Get(run.cfg, "test"))
                                 THEN "resolve" ELSE "return"]
    /\ UNCHANGED <<emaVars, scriptVars>>

\* lines 167-174: the checkpoint path of the test, [ckpt_path, raised].
\* cfg.get('trainer')['ckpt_path'] subscripts None when cfg has no "trainer"
\* (TypeError) and misses the key when the dictionary has none (KeyError).
resolve_ckpt_path(cfg, best_model_path) ==
    IF Truthy(Get(cfg, "ckpt_path")) /\ ~Truthy(Get(cfg, "train"))
    THEN [ckpt_path |-> Get(cfg, "ckpt_path"), raised |-> "None"]
    ELSE IF "trainer" \notin DOMAIN cfg
    THEN [ckpt_path |-> "None", raised |-> "TypeError"]
    ELSE IF "ckpt_path" \notin DOMAIN cfg["trainer"]
    THEN [ckpt_path |-> "None", raised |-> "KeyError"]
    ELSE IF Truthy(cfg["trainer"]["ckpt_path"]) /\ ~Truthy(Get(cfg, "train"))
    THEN [ckpt_path |-> "None", raised |-> "None"]
    ELSE [ckpt_path |-> best_model_path, raised |-> "None"]

training_resolve ==
    /\ At("resolve")
    /\ LET r == resolve_ckpt_path(run.cfg, run.best_model_path)
       IN  run' = [run EXCEPT !.pc = IF r.raised = "None" THEN "guard" ELSE @,
                              !.ckpt_path = r.ckpt_path,
                              !.raised = r.raised]
    /\ UNCHANGED <<emaVars, scriptVars>>

\* lines 176-178: if ckpt_path == "": raise ValueError('')
training_guard ==
    /\ At("guard")
    /\ run' = IF run.ckpt_path = ""
              THEN [run EXCEPT !.raised = "ValueError"]
              ELSE [run EXCEPT !.pc = "trainer_test"]
    /\ UNCHANGED <<emaVars, scriptVars>>

\* line 179: trainer.test(model=model, datamodule=datamodule, ckpt_path=ckpt_path)
training_test ==
    /\ At("trainer_test")
    /\ run' = [run EXCEPT !.pc = "return",
                          !.calls = Append(@, <<"test", run.ckpt_path>>)]
    /\ UNCHANGED <<emaVars, scriptVars>>

TrainingNext ==
    \/ training_if_training
    \/ training_fit
    \/ training_save_checkpoint
    \/ training_if_test
    \/ training_resolve
    \/ training_guard
    \/ training_test

SpecTraining == TrainingInit /\ [][TrainingNext]_vars

-----------------------------------------------------------------------------
(* Claims about EMAModel *)

\* this step of the run is a step() call that returned
StepReturned == call'.op = "step" /\ call'.raised = "None"

\* a was computed from the exact value e (times Scale) by n roundings down
WithinRounding(a, e, n) == Scale * a <= e /\ e < Scale * (a + n)

\* C2: step(new_model) leaves, for every parameter of new_model that
\* requires gradients and is in the shadow, old_shadow * decay + new_param *
\* (1 - decay) in the shadow, decay being get_decay of the counter as it was
\* before the call's increment; "equals" is up to the rounding of the two
\* in-place operations (mul_, add_) that compute it.
C2_ShadowIsBlend ==
    [][StepReturned =>
        \A key \in DOMAIN call'.new_model.params
                   \cap DOMAIN ema.averaged_model.params :
            call'.new_model.params[key].requires_grad =>
                LET decay == get_decay(ema, ema.optimization_step)
                    old   == ema.averaged_model.params[key].data
                    new   == call'.new_model.params[key].data
                IN  /\ ema'.decay = decay
                    /\ WithinRounding(ema'.averaged_model.params[key].data,
                                      old * decay + new * (Scale - decay), 2)]_vars

\* C2 witness: a step() call made with a decay strictly between 0 and 1
\* has left a shadow weight that is neither the live weight nor a bound
C2_Witness ==
    /\ call.op = "step"
    /\ ema.decay > 0
    /\ ema.averaged_model.params["weight"].data
          # call.new_model.params["weight"].data
    /\ ema.averaged_model.params["weight"].data \notin ParamValues

\* C4: optimization_step starts at 0 and counts the step() calls, train()
\* leaving it alone; after k step() calls the stored decay is
\* get_decay(k - 1), and 0.0 before the first call.
C4_CounterCountsSteps ==
    /\ ema.optimization_step = stepCalls
    /\ ema.decay = IF stepCalls = 0 THEN 0 ELSE get_decay(ema, stepCalls - 1)

\* C4 witness: three step() calls and a train() call later, the stored
\* decay is the non-zero decay of step 2
C4_Witness ==
    /\ stepCalls = 3
    /\ call.op = "train"
    /\ ema.optimization_step = 3
    /\ ema.decay > 0

\* C21: a step() call made while optimization_step <= update_after_step + 1
\* (with the defaults, the first two calls) has decay 0.0 and leaves, for
\* every parameter of new_model that requires gradients, exactly the live
\* value as the shadow value, in the state the call loads and in the shadow
\* itself; the calls from optimization_step = update_after_step + 2 on have
\* a decay above 0.0, so the shadow can differ from the live parameters
\* from that call on and not before.
C21_WarmUpCopies ==
    [][StepReturned =>
        IF ema.optimization_step <= ema.update_after_step + 1
        THEN /\ ema'.decay = 0
             /\ \A key \in DOMAIN call'.new_model.params :
                   call'.new_model.params[key].requires_grad =>
                      /\ call'.ema_state_dict[key] =
                            call'.new_model.params[key].data
                      /\ key \in DOMAIN ema'.averaged_model.params =>
                            ema'.averaged_model.params[key].data =
                               call'.new_model.params[key].data
        ELSE ema'.decay > 0]_vars

\* C21 witness: with update_after_step = 1 the third step() call, made with
\* optimization_step = 2, is the last of the warm-up: its decay is 0.0 and
\* the shadow weight is the live weight
C21_Witness ==
    /\ call.op = "step"
    /\ call.raised = "None"
    /\ ema.update_after_step = 1
    /\ stepCalls = 3
    /\ ema.optimization_step = ema.update_after_step + 2
    /\ ema.decay = 0
    /\ ema.averaged_model.params["weight"].data
          = call.new_model.params["weight"].data

\* C5: after a step() call, every parameter of new_model that does not
\* require gradients has exactly the live value as its shadow value: in the
\* state the call loads into the shadow and in the shadow itself.
C5_FrozenCopiedExactly ==
    call.op = "step" =>
        \A key \in DOMAIN call.new_model.params :
            ~call.new_model.params[key].requires_grad =>
                /\ key \in DOMAIN call.ema_state_dict
                /\ call.ema_state_dict[key] = call.new_model.params[key].data
                /\ key \in DOMAIN ema.averaged_model.params =>
                      ema.averaged_model.params[key].data
                          = call.new_model.params[key].data

\* C5 witness: a step() call with a non-zero decay, which blended the
\* weight, copied the frozen parameter
C5_Witness ==
    /\ call.op = "step"
    /\ ema.decay > 0
    /\ ema.averaged_model.params["weight"].data
          # call.new_model.params["weight"].data
    /\ ema.averaged_model.params["frozen"].data
          = call.new_model.params["frozen"].data
    /\ call.new_model.params["frozen"].data # call.new_model.params["weight"].data

\* C6: after a step() call every buffer of the live model has the identical
\* value in the shadow, whatever the decay.
C6_BuffersCopied ==
    call.op = "step" =>
        \A key \in DOMAIN call.new_model.buffers :
            /\ key \in DOMAIN ema.averaged_model.buffers
            /\ ema.averaged_model.buffers[key] = call.new_model.buffers[key]

\* C6 witness: a step() call with a non-zero decay, which blended the
\* weight, left the live buffer in the shadow
C6_Witness ==
    /\ call.op = "step"
    /\ ema.decay > 0
    /\ ema.averaged_model.params["weight"].data
          # call.new_model.params["weight"].data
    /\ ema.averaged_model.buffers["running_mean"]
          = call.new_model.buffers["running_mean"]

\* new_model without the parameters the shadow lacks
KnownPart(new_model, self) ==
    [new_model EXCEPT
        !.params = [k \in DOMAIN new_model.params
                          \cap DOMAIN self.averaged_model.params |->
                       new_model.params[k]]]

\* C7: a step() call whose new_model has a parameter absent from the shadow
\* raises nothing; the parameter is seeded from the live value (a parameter
\* requiring gradients is then blended with itself, which gives the live
\* value up to one rounding); the tracker ends as after the same call
\* without that parameter, counter included.
C7_AbsentKeySeeded ==
    [][call'.op = "step" =>
        \A key \in DOMAIN call'.new_model.params :
            key \notin DOMAIN ema.averaged_model.params =>
                /\ call'.raised = "None"
                /\ key \in DOMAIN call'.ema_state_dict
                /\ call'.ema_state_dict[key]
                      \in (call'.new_model.params[key].data - 1)
                           .. call'.new_model.params[key].data
                /\ ~call'.new_model.params[key].requires_grad =>
                      call'.ema_state_dict[key] = call'.new_model.params[key].data
                /\ ema' = step(ema, KnownPart(call'.new_model, ema)).self
                /\ ema'.optimization_step = ema.optimization_step + 1]_vars

\* C7 witness: a step() call with the parameter "extra", which the shadow
\* lacks, has returned with a non-zero decay
C7_Witness ==
    /\ call.op = "step"
    /\ "extra" \in DOMAIN call.new_model.params
    /\ "extra" \notin DOMAIN ema.averaged_model.params
    /\ call.new_model.params["extra"].requires_grad
    /\ call.raised = "None"
    /\ ema.decay > 0

\* C8: train(mode) returns the tracker and changes nothing of it or of the
\* shadow, and the shadow stays in evaluation mode through any sequence of
\* train() and step() calls.
C8_TrainIsNoOp ==
    /\ [](~ema.averaged_model.training)
    /\ [][call'.op = "train" => ema' = ema /\ call'.ret = "self"]_vars

\* C8 witness: train(True) was called after a step() call and the shadow
\* is in evaluation mode
C8_Witness ==
    /\ call.op = "train"
    /\ call.mode = "True"
    /\ stepCalls >= 1
    /\ ~ema.averaged_model.training

-----------------------------------------------------------------------------
(* Claims about get_decay *)

\* C3: with the defaults (update_after_step 0, inv_gamma 1, power 2/3,
\* min_value 0, max_value 0.9999) get_decay(0) = 0.0, get_decay(s) <=
\* get_decay(s + 1) and get_decay(s) <= 0.9999; with any configuration
\* get_decay is 0.0 when optimization_step - update_after_step - 1 <= 0.
C3_DecaySchedule ==
    call.op = "get_decay" =>
        LET s == call.optimization_step
        IN  /\ s - ema.update_after_step - 1 <= 0 => call.value = 0
            /\ HasConfig(ema, DefaultConfig) =>
                  /\ s = 0 => call.value = 0
                  /\ call.value <= get_decay(ema, s + 1)
                  /\ call.value <= 9999

\* C3 witness: with the defaults, a step past the one at which the curve
\* reaches 0.9999 has the decay 0.9999, and no more
C3_Witness ==
    /\ call.op = "get_decay"
    /\ HasConfig(ema, DefaultConfig)
    /\ call.optimization_step > ClampStep + 1
    /\ call.value = 9999

-----------------------------------------------------------------------------
(* Claims about training(cfg) *)

\* the names of the calls made on the trainer, in order
CallNames == [i \in 1 .. Len(run.calls) |-> run.calls[i][1]]

\* the run is in the test branch (cfg.get("test") was truthy) and has
\* resolved a checkpoint path
Resolved ==
    \/ run.pc \in {"guard", "trainer_test"}
    \/ "test" \in {CallNames[i] : i \in DOMAIN CallNames}

\* C1: in the test branch the explicit cfg ckpt_path is the path of the
\* test only when the run is not training (cfg training false); when it is
\* training the path is the checkpoint callback's best_model_path; when it
\* is not training and cfg has no ckpt_path but a trainer ckpt_path, no
\* path (None) is passed.
C1_CkptPathPrecedence ==
    Resolved =>
        IF Truthy(run.cfg["training"])
        THEN run.ckpt_path = run.best_model_path
        ELSE IF Truthy(Get(run.cfg, "ckpt_path"))
        THEN run.ckpt_path = Get(run.cfg, "ckpt_path")
        ELSE IF Truthy(Get(Get(run.cfg, "trainer"), "ckpt_path"))
        THEN run.ckpt_path = "None"
        ELSE run.ckpt_path = run.best_model_path

\* C9: in the test branch an empty resolved path raises and trainer.test is
\* never called; trainer.test is called only with a resolved path that is
\* not the empty string; and the empty-path error is the only error
\* raised in the test branch before trainer.test.
C9_OnlyEmptyPathError ==
    /\ \A i \in DOMAIN run.calls :
          run.calls[i][1] = "test" => run.calls[i][2] # ""
    /\ (Resolved /\ run.ckpt_path = "") =>
          /\ run.pc = "guard"
          /\ "test" \notin {CallNames[i] : i \in DOMAIN CallNames}
    /\ (run.pc = "guard" /\ run.raised # "None") =>
          run.raised = "ValueError" /\ run.ckpt_path = ""
    /\ (run.pc \in {"resolve", "guard", "trainer_test"} /\ run.raised # "None") =>
          run.raised = "ValueError"

\* C10: when cfg training is true the calls on the trainer are fit, then
\* save_checkpoint of {ckpt_path}/final.ckpt, then at most the test, and
\* both have run when the test branch is reached; when it is false neither
\* fit nor save_checkpoint is ever called.
C10_FitSaveThenTest ==
    IF Truthy(run.cfg["training"])
    THEN /\ \/ CallNames = <<>>
            \/ CallNames = <<"fit">>
            \/ CallNames = <<"fit", "save_checkpoint">>
            \/ CallNames = <<"fit", "save_checkpoint", "test">>
         /\ Len(run.calls) >= 2 =>
               run.calls[2][2] = run.cfg["ckpt_path"] \o "/final.ckpt"
         /\ run.pc \in {"test", "resolve", "guard", "trainer_test", "return"} =>
               Len(run.calls) >= 2
    ELSE CallNames = <<>> \/ CallNames = <<"test">>

\* C10 witness: a training run has returned after fit, the save of
\* ckpts/final.ckpt and the test, in this order
C10_Witness ==
    /\ run.pc = "return"
    /\ Truthy(run.cfg["training"])
    /\ run.calls[2] = <<"save_checkpoint", "ckpts/final.ckpt">>
    /\ CallNames = <<"fit", "save_checkpoint", "test">>

-----------------------------------------------------------------------------
(* Tensors of the samplers.  A tensor is modelled by where it comes from:  *)
(* the call of torch.randn that drew it (the init-th call of the run) and  *)
(* the reverse steps it went through since, each with its timesteps and    *)
(* with the noise prediction it was given.  A noise prediction is named by *)
(* the tensor and the timesteps the network was called on (the tensor by   *)
(* its draw and the number of its reverse steps, once inside a step) and   *)
(* by what the call was conditioned on.  The schedule                      *)
(* tensors beta, alpha and alpha_bar are modelled by their length, and a   *)
(* coefficient by its index.                                               *)

\* the tracker and training(cfg) are not part of the scripts below
TrackerIdle ==
    /\ ema = NoModel
    /\ call = NoCall
    /\ stepCalls = 0
    /\ run = NoRun

\* torch.randn(batch, 3, im_size, im_size), the init-th draw of the run
randn(init, batch) == [init |-> init, batch |-> batch, steps |-> <<>>]

\* model(x, t): the prediction of the network on x at timesteps t, not
\* conditioned on anything
model(x, t) == [x |-> x, t |-> t, cond |-> "None"]

\* consts.gather(-1, t) on a schedule tensor of consts_len entries, t a
\* vector of indices: an index outside 0 .. consts_len - 1 raises
gather(consts_len, t) ==
    IF \A j \in 1 .. Len(t) : t[j] \in 0 .. (consts_len - 1)
    THEN [c |-> t, raised |-> "None"]
    ELSE [c |-> <<>>, raised |-> "RuntimeError"]

\* the reverse step x_t -> x_{t-1}: gathers alpha_bar, alpha and beta at t,
\* removes the predicted noise and adds sqrt(beta_t) * torch.randn
reverse_step(consts_len, xt, noise, t) ==
    LET g == gather(consts_len, t)
    IN  IF g.raised # "None"
        THEN [x |-> xt, raised |-> g.raised]
        ELSE [x |-> [xt EXCEPT !.steps =
                        Append(@, [t |-> g.c,
                                   noise |-> <<noise.x.init,
                                               Len(noise.x.steps), noise.t,
                                               noise.cond>>])],
              raised |-> "None"]

\* x[index]
item(x, index) == [of |-> x, index |-> index]

\* save_image(tensor, fp) on the files written so far
save_image(files, tensor, fp) == Append(files, [fp |-> fp, tensor |-> tensor])

-----------------------------------------------------------------------------
(* cddpm.py, lines 716-732: the sampling section.  It draws one batch of   *)
(* n_images noise images, takes them through the n_steps reverse steps and *)
(* writes one file per image.                                              *)

\* cddpm.py line 527 (the schedule of lines 528-530 has n_steps entries)
cddpm_n_steps == 1000
\* cddpm.py line 718
n_images == 100

\* cddpm.py p_xt, on the schedule of cddpm.py
cddpm_p_xt(xt, noise, t) == reverse_step(cddpm_n_steps, xt, noise, t)

sampling_t_ascending(i) == <<i>>

\* line 721: t = torch.tensor(n_steps-i-1), passed as t.unsqueeze(0)
sampling_t(i) == <<cddpm_n_steps - i - 1>>

sampling_fp_first(i) == "img_" \o ToString(0) \o ".png"

\* line 732: f'{fake_image_path}/img_{i}.png', within fake_image_path
sampling_fp(i) == "img_" \o ToString(i) \o ".png"

SamplingInit ==
    /\ samp = [pc |-> "randn", i |-> 0, x |-> randn(0, 0), randn_calls |-> 0,
               t |-> <<>>, pred_noise |-> model(randn(0, 0), <<>>),
               files |-> <<>>, raised |-> "None"]
    /\ gen = NoScript /\ fwd = NoScript /\ sched = NoScript /\ loop = NoScript
    /\ TrackerIdle

\* line 719: x = torch.randn(n_images, 3, im_size, im_size)
sampling_randn ==
    /\ samp.pc = "randn"
    /\ samp' = [samp EXCEPT !.pc = "loop",
                            !.randn_calls = @ + 1,
                            !.x = randn(samp.randn_calls + 1, n_images)]
    /\ UNCHANGED <<emaVars, run, gen, fwd, sched, loop>>

\* lines 720-726: one pass of the loop over range(n_steps)
sampling_step ==
    /\ samp.pc = "loop"
    /\ samp.i < cddpm_n_steps
    /\ LET t == sampling_t(samp.i)
           pred_noise == model(samp.x, t)
           r == cddpm_p_xt(samp.x, pred_noise, t)
       IN  samp' = [samp EXCEPT
                       !.t = t,
                       !.pred_noise = pred_noise,
                       !.x = r.x,
                       !.raised = r.raised,
                       !.i = IF r.raised # "None" THEN @
                             ELSE IF @ + 1 < cddpm_n_steps THEN @ + 1 ELSE 0,
                       !.pc = IF r.raised # "None" THEN "raised"
                              ELSE IF samp.i + 1 < cddpm_n_steps THEN "loop"
                              ELSE IF n_images > 0 THEN "save" ELSE "done"]
    /\ UNCHANGED <<emaVars, run, gen, fwd, sched, loop>>

\* lines 731-732: one pass of the loop over range(n_images)
sampling_save ==
    /\ samp.pc = "save"
    /\ samp.i < n_images
    /\ samp' = [samp EXCEPT
                   !.files = save_image(@, item(samp.x, samp.i),
                                        sampling_fp(samp.i)),
                   !.i = @ + 1,
                   !.pc = IF samp.i + 1 < n_images THEN "save" ELSE "done"]
    /\ UNCHANGED <<emaVars, run, gen, fwd, sched, loop>>

SamplingNext == sampling_randn \/ sampling_step \/ sampling_save

SpecSampling == SamplingInit /\ [][SamplingNext]_vars

\* how many passes of the loop of lines 720-726 have been made
SamplingPasses == IF samp.pc \in {"save", "done"} THEN cddpm_n_steps ELSE samp.i

\* C11: in the sampling section x is drawn from noise exactly once, before
\* the loop; the passes of the loop take the timesteps n_steps-1, n_steps-2,
\* ... down to 0, each once and in this order; and in every pass the noise is
\* predicted on the current x at the pass's timestep before the reverse step
\* replaces x, so that the x given to a pass is the x the pass before it
\* produced (the drawn noise, for the first pass).
C11_ReverseChain ==
    samp.pc # "randn" =>
        /\ samp.raised = "None"
        /\ samp.randn_calls = 1
        /\ samp.x.init = 1
        /\ Len(samp.x.steps) = SamplingPasses
        /\ \A j \in 1 .. Len(samp.x.steps) :
              /\ samp.x.steps[j].t = <<cddpm_n_steps - j>>
              /\ samp.x.steps[j].noise =
                    <<1, j - 1, <<cddpm_n_steps - j>>, "None">>
        /\ Len(samp.x.steps) > 0 =>
              /\ samp.t = <<cddpm_n_steps - Len(samp.x.steps)>>
              /\ samp.pred_noise.t = samp.t
              /\ samp.pred_noise.x =
                    [samp.x EXCEPT !.steps = SubSeq(@, 1, Len(@) - 1)]

\* the loop has made its last pass, at timestep 0
C11_Witness ==
    /\ samp.pc = "save"
    /\ samp.i = 0
    /\ Len(samp.x.steps) = cddpm_n_steps
    /\ samp.x.steps[cddpm_n_steps].t = <<0>>

\* C12: the sampling section writes exactly n_images files, img_0.png to
\* img_{n_images-1}.png, one per image of the batch, none skipped and none
\* written twice, and it writes them all after the last reverse step (the
\* one at timestep 0).
C12_OneFilePerImage ==
    /\ samp.pc \in {"randn", "loop"} => samp.files = <<>>
    /\ samp.pc = "save" => Len(samp.files) = samp.i /\ samp.i < n_images
    /\ samp.pc = "done" => Len(samp.files) = n_images
    /\ \A j \in 1 .. Len(samp.files) :
          /\ samp.files[j].fp = "img_" \o ToString(j - 1) \o ".png"
          /\ samp.files[j].tensor = item(samp.x, j - 1)
    /\ samp.files # <<>> =>
          /\ Len(samp.x.steps) = cddpm_n_steps
          /\ samp.x.steps[cddpm_n_steps].t = <<0>>

\* all the files are written
C12_Witness ==
    /\ samp.pc = "done"
    /\ Len(samp.files) = n_images
    /\ samp.files[n_images].fp = "img_99.png"

-----------------------------------------------------------------------------
(* training_utils.py: generate_image(model, fake_image_path, im_size,      *)
(* dataloader, batch_size).  For every batch of the dataloader it makes    *)
(* n_steps inner steps and writes one file.                                *)

\* training_utils.py line 67: the schedule of lines 68-70 has n_steps entries
n_steps == 1000
\* training_utils.py line 227: the n_steps local to generate_image
generate_image_n_steps == 1000

\* how many batches the dataloader yields, at most
MaxBatches == 2
\* the batch_size arguments
BatchSizes == {1, 2}

\* training_utils.py p_xt, on the schedule of training_utils.py
p_xt(xt, noise, t) == reverse_step(n_steps, xt, noise, t)

\* model.get_encoder_hidden_states(batch, batch_size=batch_size)
get_encoder_hidden_states(batch) == [batch |-> batch]

\* model.model(x, timesteps, encoder_hidden_states=...).sample
conditioned_model(x, t, encoder_hidden_states) ==
    [x |-> x, t |-> t, cond |-> encoder_hidden_states]

\* torch.randint(high, (size,)): high must be positive; each entry is drawn
\* from 0 .. high - 1, here its least, its middle and its greatest value
randint(high, size) ==
    IF high <= 0 THEN {}
    ELSE [1 .. size -> {0, high \div 2, high - 1}]

generate_image_high_plus(i) == generate_image_n_steps - i + 1

\* line 235: the bound n_steps - i of the timesteps drawn in inner step i
generate_image_high(i) == generate_image_n_steps - i

generate_image_x_carried(x, noise, i) == IF i = 0 THEN noise ELSE x

\* line 238: x = torch.randn(...), whatever x was
generate_image_x(x, noise, i) == noise

generate_image_saved_batch(x) == x

\* line 248: tensor=x[0]
generate_image_saved(x) == item(x, 0)

\* line 248: fp=f'{fake_image_path}/img_{it}.png', within fake_image_path
generate_image_fp(it) == "img_" \o ToString(it) \o ".png"

GenerateInit ==
    /\ \E n \in 0 .. MaxBatches, batch_size \in BatchSizes :
          gen = [pc |-> "batch", dataloader |-> n, batch_size |-> batch_size,
                 batch |-> 0, it |-> 0, i |-> 0, high |-> 0,
                 timesteps |-> <<>>, x |-> randn(0, 0), randn_calls |-> 0,
                 pred_noise |-> model(randn(0, 0), <<>>),
                 inner_steps |-> <<>>, last_x |-> <<>>,
                 files |-> <<>>, raised |-> "None"]
    /\ samp = NoScript /\ fwd = NoScript /\ sched = NoScript /\ loop = NoScript
    /\ TrackerIdle

\* lines 231-232: for batch in dataloader, the next batch or the end
generate_image_batch ==
    /\ gen.pc = "batch"
    /\ gen' = IF gen.batch < gen.dataloader
              THEN [gen EXCEPT !.pc = "inner", !.batch = @ + 1, !.i = 0,
                               !.inner_steps = Append(@, 0)]
              ELSE [gen EXCEPT !.pc = "done"]
    /\ UNCHANGED <<emaVars, run, samp, fwd, sched, loop>>

\* lines 233-246: one pass of the loop over range(n_steps)
generate_image_inner ==
    /\ gen.pc = "inner"
    /\ gen.i < generate_image_n_steps
    /\ LET high == generate_image_high(gen.i)
           draws == randint(high, gen.batch_size)
           noise == randn(gen.randn_calls + 1, gen.batch_size)
           x == generate_image_x(gen.x, noise, gen.i)
           encoder_hidden_states == get_encoder_hidden_states(gen.batch)
       IN  IF draws = {}
           THEN gen' = [gen EXCEPT !.high = high, !.pc = "raised",
                                   !.raised = "RuntimeError"]
           ELSE \E timesteps \in draws :
                   LET pred_noise == conditioned_model(x, timesteps,
                                                       encoder_hidden_states)
                       r == p_xt(x, pred_noise, timesteps)
                       last == gen.i + 1 >= generate_image_n_steps
                   IN  gen' = [gen EXCEPT
                                  !.high = high,
                                  !.timesteps = timesteps,
                                  !.randn_calls = @ + 1,
                                  !.pred_noise = pred_noise,
                                  !.x = r.x,
                                  !.raised = r.raised,
                                  !.inner_steps[gen.batch] =
                                      IF r.raised # "None" THEN @ ELSE @ + 1,
                                  !.i = IF r.raised # "None" THEN @ ELSE @ + 1,
                                  !.last_x = IF r.raised = "None" /\ last
                                             THEN Append(@, r.x) ELSE @,
                                  !.pc = IF r.raised # "None" THEN "raised"
                                         ELSE IF last THEN "save" ELSE "inner"]
    /\ UNCHANGED <<emaVars, run, samp, fwd, sched, loop>>

\* lines 248-249: save_image(tensor=x[0], ...); it+=1
generate_image_save ==
    /\ gen.pc = "save"
    /\ gen' = [gen EXCEPT
                  !.files = save_image(@, generate_image_saved(gen.x),
                                       generate_image_fp(gen.it)),
                  !.it = @ + 1,
                  !.pc = "batch"]
    /\ UNCHANGED <<emaVars, run, samp, fwd, sched, loop>>

GenerateNext ==
    generate_image_batch \/ generate_image_inner \/ generate_image_save

SpecGenerate == GenerateInit /\ [][GenerateNext]_vars

\* the batch at hand has had its last inner step
BatchEnded == gen.pc \in {"save", "batch", "done"}

\* the file of the batch at hand is written
BatchSaved == gen.pc \in {"batch", "done"}

\* C13: for a dataloader of N batches generate_image makes exactly
\* n_steps = 1000 inner steps for each batch and writes exactly N files, one
\* per batch, img_0.png to img_{N-1}.png in the order of the dataloader, each
\* holding only image 0 of the x left by the last inner step of its batch.
C13_OneFilePerBatch ==
    /\ gen.raised = "None"
    /\ Len(gen.inner_steps) = gen.batch
    /\ \A b \in 1 .. gen.batch :
          IF b < gen.batch \/ BatchEnded
          THEN gen.inner_steps[b] = 1000
          ELSE gen.inner_steps[b] = gen.i /\ gen.i < 1000
    /\ Len(gen.files) = IF BatchSaved THEN gen.batch ELSE gen.batch - 1
    /\ gen.pc = "done" => Len(gen.files) = gen.dataloader
    /\ \A j \in 1 .. Len(gen.files) :
          /\ gen.files[j].fp = "img_" \o ToString(j - 1) \o ".png"
          /\ gen.files[j].tensor = [of |-> gen.last_x[j], index |-> 0]
          /\ gen.last_x[j].steps[Len(gen.last_x[j].steps)].noise[4] =
                [batch |-> j]

\* both batches of a dataloader of two are done
C13_Witness ==
    /\ gen.pc = "done"
    /\ gen.dataloader = 2
    /\ gen.batch_size = 2
    /\ Len(gen.files) = 2
    /\ gen.inner_steps = <<1000, 1000>>

\* C17: generate_image carries no image from one inner step to the next: in
\* every inner step x is drawn afresh before the network is called, so the
\* x of a step is one reverse step of that step's noise, and the x saved for
\* a batch is one reverse step of the noise drawn in the batch's last inner
\* step (i = n_steps - 1), whatever the steps before produced.
C17_NoCarriedImage ==
    /\ gen.timesteps # <<>> =>
          /\ gen.x.init = gen.randn_calls
          /\ Len(gen.x.steps) = 1
          /\ gen.x.steps[1].t = gen.timesteps
          /\ gen.x.steps[1].noise[1] = gen.randn_calls
          /\ gen.x.steps[1].noise[2] = 0
          /\ gen.x.steps[1].noise[3] = gen.timesteps
          /\ gen.pred_noise.x = randn(gen.randn_calls, gen.batch_size)
    /\ \A j \in 1 .. Len(gen.files) :
          /\ gen.files[j].tensor.of.init = j * generate_image_n_steps
          /\ Len(gen.files[j].tensor.of.steps) = 1
          /\ gen.files[j].tensor.of.steps[1].noise[1] =
                j * generate_image_n_steps
          /\ gen.files[j].tensor.of.steps[1].noise[2] = 0

\* the second batch has had its last inner step, after 2 * n_steps draws
C17_Witness ==
    /\ gen.pc = "save"
    /\ gen.batch = 2
    /\ gen.i = generate_image_n_steps
    /\ gen.randn_calls = 2 * generate_image_n_steps
    /\ Len(gen.files) = 1

\* C20: in every inner step i of generate_image the bound n_steps - i given
\* to randint is at least 1 and every timestep drawn is at least 0, below
\* n_steps - i and so below n_steps, the n_steps of generate_image being the
\* length of the schedule of the module: every index the reverse step hands
\* to gather is an index of the schedule, and nothing raises.
C20_TimestepsInSchedule ==
    /\ gen.raised = "None"
    /\ gen.pc # "raised"
    /\ generate_image_n_steps = n_steps
    /\ gen.timesteps # <<>> =>
          /\ gen.high >= 1
          /\ gen.high <= generate_image_n_steps
          /\ gen.pc = "inner" /\ gen.i > 0 =>
                gen.high = generate_image_n_steps - (gen.i - 1)
          /\ BatchEnded \/ gen.i = 0 => gen.high = 1
          /\ \A j \in 1 .. Len(gen.timesteps) :
                /\ 0 <= gen.timesteps[j]
                /\ gen.timesteps[j] < gen.high
                /\ gen.timesteps[j] < n_steps
                /\ gen.x.steps[1].t[j] = gen.timesteps[j]

\* the first inner step drew the last index of the schedule
C20_Witness ==
    /\ gen.pc = "inner"
    /\ gen.i = 1
    /\ gen.high = n_steps
    /\ gen.timesteps = <<n_steps - 1, 0>>

-----------------------------------------------------------------------------
(* cddpm.py: the UNet, on integer shapes.  A tensor is its shape           *)
(* [B, C, H, W]; a module is its kind and the channel counts it was built  *)
(* with; a module applied to a tensor with another channel count raises.   *)

\* the height and width of the inputs, at most
MaxSize == 8
\* n_blocks, at most
MaxBlocks == 2

Shape(B, C, H, W) == [B |-> B, C |-> C, H |-> H, W |-> W]

\* the output size of nn.Conv2d along one axis
conv_out(size, kernel, stride, padding) ==
    (size + 2 * padding - kernel) \div stride + 1

\* the output size of nn.ConvTranspose2d along one axis
conv_transpose_out(size, kernel, stride, padding) ==
    (size - 1) * stride - 2 * padding + kernel

\* nn.GroupNorm(num_groups, num_channels) can be built
GroupNormOk(num_groups, num_channels) == num_channels % num_groups = 0

\* ResidualBlock(in_channels, out_channels, time_channels), n_groups = 32
ResidualBlockOk(in_channels, out_channels) ==
    GroupNormOk(32, in_channels) /\ GroupNormOk(32, out_channels)

DownBlock(in_channels, out_channels, has_attn) ==
    [kind |-> "DownBlock", in_channels |-> in_channels,
     out_channels |-> out_channels, has_attn |-> has_attn,
     ok |-> ResidualBlockOk(in_channels, out_channels)]

\* its ResidualBlock takes in_channels + out_channels channels
UpBlock(in_channels, out_channels, has_attn) ==
    [kind |-> "UpBlock", in_channels |-> in_channels,
     out_channels |-> out_channels, has_attn |-> has_attn,
     ok |-> ResidualBlockOk(in_channels + out_channels, out_channels)]

MiddleBlock(n_channels) ==
    [kind |-> "MiddleBlock", in_channels |-> n_channels,
     out_channels |-> n_channels, has_attn |-> TRUE,
     ok |-> ResidualBlockOk(n_channels, n_channels)]

Upsample(n_channels) ==
    [kind |-> "Upsample", in_channels |-> n_channels,
     out_channels |-> n_channels, has_attn |-> FALSE, ok |-> TRUE]

Downsample(n_channels) ==
    [kind |-> "Downsample", in_channels |-> n_channels,
     out_channels |-> n_channels, has_attn |-> FALSE, ok |-> TRUE]

\* lines 404-417: the modules of the resolutions i .. n_resolutions of the
\* down path, joined to down; in_channels and out_channels as the loop
\* leaves them
RECURSIVE unet_down(_, _, _, _, _, _, _)
unet_down(ch_mults, is_attn, n_blocks, i, in_channels, out_channels, down) ==
    IF i > Len(ch_mults)
    THEN [modules |-> down, in_channels |-> in_channels,
          out_channels |-> out_channels]
    ELSE LET out == in_channels * ch_mults[i]
             blocks == [j \in 1 .. n_blocks |->
                           DownBlock(IF j = 1 THEN in_channels ELSE out, out,
                                     is_attn[i])]
             in == IF n_blocks > 0 THEN out ELSE in_channels
             sample == IF i < Len(ch_mults) THEN <<Downsample(in)>> ELSE <<>>
         IN  unet_down(ch_mults, is_attn, n_blocks, i + 1, in, out,
                       down \o blocks \o sample)

\* lines 426-441: the modules of the resolutions i, i - 1, .. 1 of the up
\* path, joined to up
RECURSIVE unet_up(_, _, _, _, _, _)
unet_up(ch_mults, is_attn, n_blocks, i, in_channels, up) ==
    IF i < 1
    THEN [modules |-> up, in_channels |-> in_channels]
    ELSE LET blocks == [j \in 1 .. n_blocks |->
                           UpBlock(in_channels, in_channels, is_attn[i])]
             out == in_channels \div ch_mults[i]
             sample == IF i > 1 THEN <<Upsample(out)>> ELSE <<>>
         IN  unet_up(ch_mults, is_attn, n_blocks, i - 1, out,
                     up \o blocks \o <<UpBlock(in_channels, out, is_attn[i])>>
                        \o sample)

\* UNet.__init__, lines 381-449
UNet(image_channels, n_channels, ch_mults, is_attn, n_blocks) ==
    LET d == unet_down(ch_mults, is_attn, n_blocks, 1, n_channels, n_channels,
                       <<>>)
        middle == MiddleBlock(d.out_channels)
        u == unet_up(ch_mults, is_attn, n_blocks, Len(ch_mults),
                     d.out_channels, <<>>)
        built == /\ \A j \in 1 .. Len(d.modules) : d.modules[j].ok
                 /\ middle.ok
                 /\ \A j \in 1 .. Len(u.modules) : u.modules[j].ok
                 /\ GroupNormOk(8, n_channels)
    IN  [image_channels |-> image_channels, n_channels |-> n_channels,
         ch_mults |-> ch_mults, is_attn |-> is_attn, n_blocks |-> n_blocks,
         down |-> d.modules, middle |-> middle, up |-> u.modules,
         final_in_channels |-> u.in_channels,
         raised |-> IF built THEN "None" ELSE "ValueError"]

\* a convolution or a normalisation built for in_channels channels, on x
Takes(in_channels, x) == x.C = in_channels

Upsample_size_kernel3(size) == conv_transpose_out(size, 3, 2, 1)

\* line 351: nn.ConvTranspose2d(n_channels, n_channels, (4, 4), (2, 2), (1, 1))
Upsample_size(size) == conv_transpose_out(size, 4, 2, 1)

\* line 367: nn.Conv2d(n_channels, n_channels, (3, 3), (2, 2), (1, 1))
Downsample_size(size) == conv_out(size, 3, 2, 1)

\* m(x, t) for a module of the down path, the middle or the up path: the
\* blocks keep height and width (3 x 3 convolutions of stride 1, padding 1)
module_forward(m, x) ==
    IF ~Takes(IF m.kind = "UpBlock" THEN m.in_channels + m.out_channels
              ELSE m.in_channels, x)
    THEN [x |-> x, raised |-> "RuntimeError"]
    ELSE [x |-> CASE m.kind = "Upsample" ->
                       Shape(x.B, x.C, Upsample_size(x.H), Upsample_size(x.W))
                  [] m.kind = "Downsample" ->
                       Shape(x.B, x.C, Downsample_size(x.H),
                             Downsample_size(x.W))
                  [] OTHER ->
                       Shape(x.B, m.out_channels, conv_out(x.H, 3, 1, 1),
                             conv_out(x.W, 3, 1, 1)),
          raised |-> "None"]

\* torch.cat((x, s), dim=1): the other dimensions must agree
cat(x, s) ==
    IF x.B = s.B /\ x.H = s.H /\ x.W = s.W
    THEN [x |-> Shape(x.B, x.C + s.C, x.H, x.W), raised |-> "None"]
    ELSE [x |-> x, raised |-> "RuntimeError"]

forward_push_blocks_only(h, m, x, pushes) ==
    IF m.kind = "Downsample" THEN h
    ELSE Append(h, [x |-> x, push |-> pushes + 1])

\* line 468: h.append(x), after every module of the down path
forward_push(h, m, x, pushes) == Append(h, [x |-> x, push |-> pushes + 1])

\* the ch_mults arguments: one to four resolutions, the last the default
ChMults == {<<1>>, <<1, 2>>, <<2, 1, 2>>, <<1, 2, 2, 4>>}

\* the is_attn arguments that match n resolutions: no attention, or
\* attention at the last two resolutions (the default, for four)
IsAttn(n) == {[i \in 1 .. n |-> FALSE], [i \in 1 .. n |-> i > n - 2]}

\* the n_channels arguments: that of cddpm.py line 552, and one GroupNorm(32,
\* .) cannot be built with
NChannels == {32, 48}

\* image_channels, line 381
image_channels == 3

ForwardInit ==
    /\ \E ch_mults \in ChMults, n_blocks \in 0 .. MaxBlocks,
          n_channels \in NChannels, B \in BatchSizes,
          H \in 1 .. MaxSize, W \in 1 .. MaxSize :
          \E is_attn \in IsAttn(Len(ch_mults)) :
             LET net == UNet(image_channels, n_channels, ch_mults, is_attn,
                             n_blocks)
             IN  fwd = [net |-> net,
                        input |-> Shape(B, image_channels, H, W),
                        pc |-> IF net.raised = "None" THEN "image_proj"
                               ELSE "unbuilt",
                        k |-> 1, x |-> Shape(B, image_channels, H, W),
                        h |-> <<>>, pushes |-> 0, pops |-> <<>>,
                        raised |-> net.raised]
    /\ samp = NoScript /\ gen = NoScript /\ sched = NoScript /\ loop = NoScript
    /\ TrackerIdle

\* lines 461-464: x = self.image_proj(x); h = [x]
forward_image_proj ==
    /\ fwd.pc = "image_proj"
    /\ IF ~Takes(fwd.net.image_channels, fwd.x)
       THEN fwd' = [fwd EXCEPT !.pc = "raised", !.raised = "RuntimeError"]
       ELSE LET x == Shape(fwd.x.B, fwd.net.n_channels,
                           conv_out(fwd.x.H, 3, 1, 1),
                           conv_out(fwd.x.W, 3, 1, 1))
            IN  fwd' = [fwd EXCEPT
                           !.x = x,
                           !.h = <<[x |-> x, push |-> 1]>>,
                           !.pushes = 1,
                           !.k = 1,
                           !.pc = IF fwd.net.down # <<>> THEN "down"
                                  ELSE "middle"]
    /\ UNCHANGED <<emaVars, run, samp, gen, sched, loop>>

\* lines 466-468: one pass of the loop over self.down
forward_down ==
    /\ fwd.pc = "down"
    /\ LET m == fwd.net.down[fwd.k]
           r == module_forward(m, fwd.x)
           h == forward_push(fwd.h, m, r.x, fwd.pushes)
       IN  IF r.raised # "None"
           THEN fwd' = [fwd EXCEPT !.pc = "raised", !.raised = r.raised]
           ELSE fwd' = [fwd EXCEPT
                           !.x = r.x,
                           !.h = h,
                           !.pushes = @ + Len(h) - Len(fwd.h),
                           !.k = IF fwd.k < Len(fwd.net.down) THEN @ + 1 ELSE 1,
                           !.pc = IF fwd.k < Len(fwd.net.down) THEN "down"
                                  ELSE "middle"]
    /\ UNCHANGED <<emaVars, run, samp, gen, sched, loop>>

\* line 471: x = self.middle(x, t)
forward_middle ==
    /\ fwd.pc = "middle"
    /\ LET r == module_forward(fwd.net.middle, fwd.x)
       IN  fwd' = [fwd EXCEPT !.x = r.x,
                              !.raised = r.raised,
                              !.k = 1,
                              !.pc = IF r.raised # "None" THEN "raised"
                                     ELSE "up"]
    /\ UNCHANGED <<emaVars, run, samp, gen, sched, loop>>

\* lines 474-481: one pass of the loop over self.up
forward_up ==
    /\ fwd.pc = "up"
    /\ LET m == fwd.net.up[fwd.k]
           next == [fwd EXCEPT
                       !.k = IF fwd.k < Len(fwd.net.up) THEN @ + 1 ELSE 1,
                       !.pc = IF fwd.k < Len(fwd.net.up) THEN "up" ELSE "final"]
       IN  IF m.kind = "Upsample"
           THEN LET r == module_forward(m, fwd.x)
                IN  fwd' = IF r.raised # "None"
                           THEN [fwd EXCEPT !.pc = "raised", !.raised = r.raised]
                           ELSE [next EXCEPT !.x = r.x]
           ELSE IF fwd.h = <<>>
           THEN fwd' = [fwd EXCEPT !.pc = "raised", !.raised = "IndexError"]
           ELSE LET s == fwd.h[Len(fwd.h)]
                    popped == [next EXCEPT
                                  !.h = SubSeq(fwd.h, 1, Len(fwd.h) - 1),
                                  !.pops = Append(@, [push |-> s.push,
                                                      x |-> fwd.x, s |-> s.x,
                                                      m |-> m])]
                    c == cat(fwd.x, s.x)
                    r == module_forward(m, c.x)
                IN  fwd' = IF c.raised # "None"
                           THEN [popped EXCEPT !.pc = "raised", !.k = fwd.k,
                                               !.raised = c.raised]
                           ELSE IF r.raised # "None"
                           THEN [popped EXCEPT !.pc = "raised", !.k = fwd.k,
                                               !.x = c.x, !.raised = r.raised]
                           ELSE [popped EXCEPT !.x = r.x]
    /\ UNCHANGED <<emaVars, run, samp, gen, sched, loop>>

\* line 484: return self.final(self.act(self.norm(x))), norm a
\* GroupNorm(8, n_channels) and final a 3 x 3 convolution of padding 1 from
\* the in_channels the up path ended with to image_channels
forward_final ==
    /\ fwd.pc = "final"
    /\ IF Takes(fwd.net.n_channels, fwd.x)
          /\ Takes(fwd.net.final_in_channels, fwd.x)
       THEN fwd' = [fwd EXCEPT
                       !.x = Shape(fwd.x.B, fwd.net.image_channels,
                                   conv_out(fwd.x.H, 3, 1, 1),
                                   conv_out(fwd.x.W, 3, 1, 1)),
                       !.pc = "returned"]
       ELSE fwd' = [fwd EXCEPT !.pc = "raised", !.raised = "RuntimeError"]
    /\ UNCHANGED <<emaVars, run, samp, gen, sched, loop>>

ForwardNext ==
    \/ forward_image_proj
    \/ forward_down
    \/ forward_middle
    \/ forward_up
    \/ forward_final

SpecForward == ForwardInit /\ [][ForwardNext]_vars

RECURSIVE Pow2(_)
Pow2(n) == IF n = 0 THEN 1 ELSE 2 * Pow2(n - 1)

\* the UNet was built, with n_blocks >= 1, and the height and the width of
\* the input are multiples of 2 ^ (len(ch_mults) - 1)
ForwardFits ==
    /\ fwd.net.raised = "None"
    /\ fwd.net.n_blocks >= 1
    /\ fwd.input.C = fwd.net.image_channels
    /\ fwd.input.H % Pow2(Len(fwd.net.ch_mults) - 1) = 0
    /\ fwd.input.W % Pow2(Len(fwd.net.ch_mults) - 1) = 0

\* C14: for ch_mults, is_attn of the same length and n_blocks >= 1, forward
\* on an input (B, image_channels, H, W) whose H and W are multiples of
\* 2 ^ (len(ch_mults) - 1) raises nowhere and returns the shape
\* (B, image_channels, H, W), and every concatenation of the up path joins a
\* feature map and a skip of the same height and width.
C14_ShapePreserved ==
    ForwardFits =>
        /\ fwd.raised = "None"
        /\ fwd.pc # "raised"
        /\ fwd.pc = "returned" => fwd.x = fwd.input
        /\ \A j \in 1 .. Len(fwd.pops) :
              /\ fwd.pops[j].x.H = fwd.pops[j].s.H
              /\ fwd.pops[j].x.W = fwd.pops[j].s.W
              /\ fwd.pops[j].x.B = fwd.pops[j].s.B

\* forward returned for three resolutions and an input of 4 x 8
C14_Witness ==
    /\ ForwardFits
    /\ fwd.pc = "returned"
    /\ Len(fwd.net.ch_mults) = 3
    /\ fwd.input = Shape(2, 3, 4, 8)
    /\ Len(fwd.pops) = 3 * (fwd.net.n_blocks + 1)

\* the modules of the up path that take a skip
UpBlocks == {j \in 1 .. Len(fwd.net.up) : fwd.net.up[j].kind # "Upsample"}

\* C19: the list h of forward is a stack: it gets the image projection and
\* the output of every module of the down path, the Downsamples included,
\* and gives one entry to every module of the up path that is not an
\* Upsample; it is never popped while empty, the pops take the entries in
\* the reverse of the order they were pushed in, at every pop the channels
\* of the feature map and of the popped skip add up to the in_channels +
\* out_channels the UpBlock taking them was built with, and at the return
\* the pushes and the pops are as many and h is empty.
C19_SkipStack ==
    fwd.net.raised = "None" =>
        /\ fwd.raised # "IndexError"
        /\ Len(fwd.h) = fwd.pushes - Len(fwd.pops)
        /\ \A j \in 1 .. Len(fwd.h) : fwd.h[j].push = j
        /\ fwd.pc = "down" => fwd.pushes = fwd.k
        /\ fwd.pc \in {"middle", "up", "final", "returned"} =>
              fwd.pushes = 1 + Len(fwd.net.down)
        /\ \A j \in 1 .. Len(fwd.pops) :
              /\ fwd.pops[j].push = fwd.pushes - j + 1
              /\ fwd.pops[j].m.kind = "UpBlock"
              /\ fwd.pops[j].x.C + fwd.pops[j].s.C =
                    fwd.pops[j].m.in_channels + fwd.pops[j].m.out_channels
        /\ fwd.pc \in {"final", "returned"} =>
              /\ fwd.h = <<>>
              /\ Len(fwd.pops) = fwd.pushes
              /\ Len(fwd.pops) = Cardinality(UpBlocks)

\* forward returned for the default ch_mults and n_blocks: 12 pushes, 12 pops
C19_Witness ==
    /\ fwd.pc = "returned"
    /\ fwd.net.ch_mults = <<1, 2, 2, 4>>
    /\ fwd.net.n_blocks = 2
    /\ fwd.pushes = 12
    /\ Len(fwd.pops) = 12
    /\ fwd.h = <<>>

-----------------------------------------------------------------------------
(* The noise schedule (training_utils.py lines 67-70, cddpm.py lines       *)
(* 527-530 and 90-93): beta = torch.linspace(beta_start, beta_end,         *)
(* n_steps), alpha = 1 - beta, alpha_bar = torch.cumprod(alpha).  The      *)
(* values are exact rationals: beta_start and beta_end are numerators over *)
(* Scale, beta[t] and alpha[t] numerators over den = Scale * (n_steps - 1),*)
(* and alpha_bar[t] a big natural over den ^ t (t counted from 1).         *)

\* the schedules have 1 .. MaxScheduleSteps entries
MaxScheduleSteps == 16

\* (beta_start, beta_end): that of the source (0.0001, 0.04), narrow and
\* wide ranges, and one that ends at 1.0
BetaRanges ==
    {<<1, 400>>, <<1, 2>>, <<1, 9999>>, <<5000, 9999>>, <<9998, 9999>>,
     <<1, 10000>>}

\* a * f for a machine integer f >= 0
BigTimes(a, f) == IF f = 0 \/ a = <<>> THEN <<>> ELSE BigMul(a, f)

\* a < b
BigLess(a, b) == BigLeq(a, b) /\ a # b

\* the common denominator of the entries of linspace(start, end, steps)
linspace_den(steps) == Scale * Max(steps - 1, 1)

\* torch.linspace(start, end, steps): start + t * (end - start) / (steps - 1)
linspace(start, end, steps) ==
    [t \in 1 .. steps |-> start * Max(steps - 1, 1) + (t - 1) * (end - start)]

alpha_one_plus(beta, den) == [t \in 1 .. Len(beta) |-> den + beta[t]]

\* alpha = 1. - beta
alpha_of(beta, den) == [t \in 1 .. Len(beta) |-> den - beta[t]]

\* the next entry of torch.cumprod(alpha, dim=0), after the entries done
cumprod_next(alpha, done) ==
    IF done = <<>> THEN BigTimes(<<1>>, alpha[1])
    ELSE BigTimes(done[Len(done)], alpha[Len(done) + 1])

ScheduleInit ==
    /\ \E steps \in 1 .. MaxScheduleSteps, range \in BetaRanges :
          sched = [pc |-> "linspace", n_steps |-> steps,
                   beta_start |-> range[1], beta_end |-> range[2],
                   den |-> linspace_den(steps),
                   beta |-> <<>>, alpha |-> <<>>, alpha_bar |-> <<>>]
    /\ samp = NoScript /\ gen = NoScript /\ fwd = NoScript /\ loop = NoScript
    /\ TrackerIdle

\* beta = torch.linspace(beta_start, beta_end, n_steps)
schedule_beta ==
    /\ sched.pc = "linspace"
    /\ sched' = [sched EXCEPT
                    !.beta = linspace(sched.beta_start, sched.beta_end,
                                      sched.n_steps),
                    !.pc = "alpha"]
    /\ UNCHANGED <<emaVars, run, samp, gen, fwd, loop>>

\* alpha = 1. - beta
schedule_alpha ==
    /\ sched.pc = "alpha"
    /\ sched' = [sched EXCEPT !.alpha = alpha_of(sched.beta, sched.den),
                              !.pc = "cumprod"]
    /\ UNCHANGED <<emaVars, run, samp, gen, fwd, loop>>

\* alpha_bar = torch.cumprod(alpha, dim=0), entry by entry
schedule_cumprod ==
    /\ sched.pc = "cumprod"
    /\ sched' = [sched EXCEPT
                    !.alpha_bar = Append(@, cumprod_next(sched.alpha, @)),
                    !.pc = IF Len(sched.alpha_bar) + 1 < sched.n_steps
                           THEN "cumprod" ELSE "done"]
    /\ UNCHANGED <<emaVars, run, samp, gen, fwd, loop>>

ScheduleNext == schedule_beta \/ schedule_alpha \/ schedule_cumprod

SpecSchedule == ScheduleInit /\ [][ScheduleNext]_vars

\* n_steps >= 2 and 0 < beta_start < beta_end < 1
ScheduleFits ==
    /\ sched.n_steps >= 2
    /\ 0 < sched.beta_start
    /\ sched.beta_start < sched.beta_end
    /\ sched.beta_end < Scale

\* den ^ t, the denominator of alpha_bar[t]
DenPow(t) == BigMulPow(<<1>>, sched.den, t)

\* C15: for n_steps >= 2 and 0 < beta_start < beta_end < 1 the schedule,
\* over exact rationals, has alpha_bar strictly decreasing in t,
\* alpha_bar[0] = 1 - beta_start and 0 < alpha_bar[t] < 1 for every t, so
\* that the arguments of the square roots of the reverse step, alpha_t,
\* beta_t and 1 - alpha_bar_t, are never negative (and the divisors
\* sqrt(alpha_t) and sqrt(1 - alpha_bar_t) never zero).
C15_AlphaBarDecreasing ==
    ScheduleFits =>
        /\ \A t \in 1 .. Len(sched.beta) :
              0 < sched.beta[t] /\ sched.beta[t] < sched.den
        /\ \A t \in 1 .. Len(sched.alpha) :
              0 < sched.alpha[t] /\ sched.alpha[t] < sched.den
        /\ \A t \in 1 .. Len(sched.alpha_bar) :
              /\ BigLess(<<>>, sched.alpha_bar[t])
              /\ BigLess(sched.alpha_bar[t], DenPow(t))
              /\ t > 1 => BigLess(sched.alpha_bar[t],
                                  BigTimes(sched.alpha_bar[t - 1], sched.den))
        /\ sched.alpha_bar # <<>> =>
              BigTimes(sched.alpha_bar[1], Scale) =
                 BigTimes(BigTimes(<<1>>, Scale - sched.beta_start), sched.den)

\* the schedule of the source's range is complete, with at least ten entries
C15_Witness ==
    /\ ScheduleFits
    /\ sched.pc = "done"
    /\ sched.beta_start = 1
    /\ sched.beta_end = 400
    /\ sched.n_steps >= 10
    /\ Len(sched.alpha_bar) = sched.n_steps

-----------------------------------------------------------------------------
(* cddpm.py, lines 580-623: the training loop.  What the data and the      *)
(* network make of a batch is an input: loss_item[e][b] is the value of    *)
(* loss.item() for batch b of pass e of the loop.  A loss is an integer    *)
(* multiple of the number of batches, so that train_loss / it is exact.    *)
(* The first statement of the body, unet.training(), calls the attribute   *)
(* training of the module, a bool: the first pass raises TypeError there   *)
(* and no later statement of the loop is ever reached.                     *)

\* the loop makes 1 .. MaxEpochs passes (epochs, line 562, is 60)
MaxEpochs == 3
\* the train_loader has 0 .. MaxLoaderLen batches
MaxLoaderLen == 2
\* line 590
prev_loss_sentinel == 1000000

\* the values of loss.item() for a loader of it batches
LossValues(it) == {it, 2 * it}

\* the unet of line 552: torch.nn.Module sets the attribute training to True
unet == [training |-> TRUE]

\* the call value(): a bool is not callable
call_value(value) ==
    IF value \in BOOLEAN THEN [raised |-> "TypeError"] ELSE [raised |-> "None"]

\* the state at line 580, for any number of epochs, any loader and any
\* losses: no pass made, losses (line 557) empty, no optimizer or scheduler
\* step made in any pass, PATH not written
LoopStates ==
    {[pc |-> "for", epochs |-> epochs, train_loader |-> it,
      loss_item |-> loss_item, epoch |-> 0, losses |-> <<>>,
      optimizer_steps |-> <<>>, scheduler_steps |-> <<>>, saves |-> <<>>,
      raised |-> "None"] :
        <<epochs, it, loss_item>> \in
            UNION {UNION {{<<e, n, l>> :
                              l \in [1 .. e -> [1 .. n -> LossValues(n)]]} :
                          n \in 0 .. MaxLoaderLen} : e \in 1 .. MaxEpochs}}

LoopInit ==
    /\ loop \in LoopStates
    /\ samp = NoScript /\ gen = NoScript /\ fwd = NoScript /\ sched = NoScript
    /\ TrackerIdle

\* lines 580-582: for epoch in range(epochs): unet.training()
loop_train_mode ==
    /\ loop.pc = "for"
    /\ loop.epoch < loop.epochs
    /\ LET r == call_value(unet.training)
       IN  loop' = [loop EXCEPT !.raised = r.raised,
                                !.pc = IF r.raised # "None" THEN "raised"
                                       ELSE "train_loss"]
    /\ UNCHANGED <<emaVars, run, samp, gen, fwd, sched>>

TrainLoopNext == loop_train_mode

SpecTrainLoop == LoopInit /\ [][TrainLoopNext]_vars

\* the loop has ended, by exhausting range(epochs) or by an exception
LoopStopped == loop.pc \in {"done", "raised"}

RECURSIVE SumSeq(_)
SumSeq(q) == IF q = <<>> THEN 0 ELSE Head(q) + SumSeq(Tail(q))

\* train_loss / it at the end of pass e (counted from 0), for it > 0
AverageLoss(e) == SumSeq(loop.loss_item[e + 1]) \div loop.train_loader

\* torch.save(unet.state_dict(), PATH) was called at the end of pass e
Saved(e) == \E j \in 1 .. Len(loop.saves) : loop.saves[j] = e

\* C16: of the passes of the loop, ./model_ddpm.pt is written at the end of
\* exactly those whose average loss is lower than the average loss of the
\* pass before (lower than the sentinel 1000000, for the first pass).
C16_SavedWhenImproved ==
    LoopStopped /\ loop.train_loader > 0 =>
        \A e \in 0 .. (loop.epochs - 1) :
            Saved(e) <=> AverageLoss(e) < (IF e = 0 THEN prev_loss_sentinel
                                           ELSE AverageLoss(e - 1))

\* C18: the loop makes all its passes and raises nothing; each pass makes
\* one optimizer step per batch of the loader, then one step of the
\* scheduler, then appends one average loss, so that losses has epochs
\* entries when the loop has ended.
C18_LoopCompletes ==
    /\ loop.raised = "None"
    /\ loop.pc # "raised"
    /\ \A e \in 1 .. Len(loop.losses) :
          /\ loop.optimizer_steps[e] = loop.train_loader
          /\ loop.scheduler_steps[e] = 1
    /\ LoopStopped => Len(loop.losses) = loop.epochs

====
